---- MODULE Spec2Model ----
(***************************************************************************)
(* Quote cache and signal pipeline of ReliableCryptoAnalyzer               *)
(* (src/working_reliable_app.py; src/app.py carries the same cache code).  *)
(*                                                                         *)
(* Units: prices are integers in 1/10000 of a dollar, 24h changes in       *)
(* 1/100 of a percent, the oscillator (rsi) in tenths, confidence in       *)
(* hundredths, the running signal score in thousandths, time in seconds.   *)
(* volatility and momentum are in 1/10000.  The last_updated and timestamp *)
(* fields of quotes and records are written and never read back, and are   *)
(* left out.                                                               *)
(***************************************************************************)
EXTENDS Integers, Sequences, FiniteSets, TLC

(* ------------------------------ bounds -------------------------------- *)
NumProcs == 2          \* request threads
MaxCalls == 3          \* operations started in one behaviour
MaxTicks == 2          \* short clock advances in one behaviour

(* -------------------------- program constants ------------------------- *)
cache_duration == 30
DaySeconds == 86400    \* timedelta.seconds wraps at one day
DefaultBase == 1000000 \* fallback_prices.get(symbol, 100)

TickStep == 15         \* seconds in one short clock advance
Null == -999999        \* a JSON value that is not a number (null)

coins == <<"BTC", "ETH", "ADA", "SOL", "DOT", "MATIC", "BNB", "XRP", "DOGE", "AVAX">>
\* the model tracks the first two of self.coins
Coins == {coins[1], coins[2]}
Untracked == "LTC"
Symbols == Coins \cup {Untracked}
Procs == 1..NumProcs

coin_ids == <<"bitcoin", "ethereum", "cardano", "solana", "polkadot",
              "matic-network", "binancecoin", "ripple", "dogecoin", "avalanche-2">>
OtherId == "tether"
Ids == {coin_ids[1], coin_ids[2]}

\* coin_mapping.get(coin_id): the tracked symbol, or "" (None) for any other id
coin_mapping(id) ==
    IF \E i \in 1..Len(coin_ids) : coin_ids[i] = id
    THEN coins[CHOOSE i \in 1..Len(coin_ids) : coin_ids[i] = id]
    ELSE ""

fallback_prices(symbol) ==
    CASE symbol = "BTC"   -> 434500000
      [] symbol = "ETH"   -> 23500000
      [] symbol = "ADA"   -> 4800
      [] symbol = "SOL"   -> 1020000
      [] symbol = "DOT"   -> 68500
      [] symbol = "MATIC" -> 7800
      [] symbol = "BNB"   -> 3150000
      [] symbol = "XRP"   -> 5700
      [] symbol = "DOGE"  -> 850
      [] symbol = "AVAX"  -> 365000
      [] OTHER            -> DefaultBase

(* ------------------------- sampled randomness ------------------------- *)
\* draws of (np.random.uniform(-0.02, 0.02) in percent, np.random.uniform(-5, 5))
FallbackDraws == {<<-2, -500>>, <<2, 500>>}

\* dict.get(key, default)
Get(d, k, default) == IF k \in DOMAIN d THEN d[k] ELSE default

(* --------------------------- fallback quotes -------------------------- *)
_get_fallback_data(symbol, draw) ==
    [price            |-> fallback_prices(symbol) + (fallback_prices(symbol) * draw[1]) \div 100,
     price_change_24h |-> draw[2],
     volume           |-> 0,
     source           |-> "fallback"]

\* a fallback batch whose quotes do not say where they come from
AllFallbackUnmarked(draws) ==
    [s \in Coins |-> [_get_fallback_data(s, draws[s]) EXCEPT !.source = "unknown"]]

_get_all_fallback_data(draws) ==
    [s \in Coins |-> _get_fallback_data(s, draws[s])]

(* ---------------------------- live responses -------------------------- *)
\* what a 200 response can say of one coin: complete, without 'usd', with a null
FullPayload == [usd |-> 1000000, usd_24h_change |-> 900, usd_24h_vol |-> 7]
LivePayloads ==
    { FullPayload,
      [usd_24h_change |-> -700],
      [usd |-> 20000, usd_24h_change |-> Null, usd_24h_vol |-> 0],
      [usd |-> Null, usd_24h_change |-> 100, usd_24h_vol |-> 0] }

\* 200 responses: any subset of the requested ids, or only an id never asked for
ResponsesOf(payloads) ==
    UNION {[D -> payloads] : D \in (SUBSET Ids) \cup {{OtherId}}}

LiveQuote(coin_data) ==
    [price            |-> Get(coin_data, "usd", 0),
     price_change_24h |-> Get(coin_data, "usd_24h_change", 0),
     volume           |-> Get(coin_data, "usd_24h_vol", 0),
     source           |-> "coingecko"]

\* lines 74-83: the quotes of the mapped ids of the response
LiveResult(data) ==
    LET syms == {coin_mapping(id) : id \in DOMAIN data} \ {""}
        idOf(s) == CHOOSE id \in DOMAIN data : coin_mapping(id) = s
    IN  [s \in syms |-> LiveQuote(data[idOf(s)])]

\* a merge that leaves the missing symbols out
FillNothing(result, fill) == result

\* lines 85-88: every tracked symbol missing from the result gets a fallback quote
FillMissing(result, fill) ==
    [s \in Coins \cup DOMAIN result |->
        IF s \in DOMAIN result THEN result[s] ELSE fill[s]]

(* --------------------------- signal pipeline -------------------------- *)
\* draws of the pipeline's np.random.uniform calls
RsiDraws == {0, 50, 100}           \* place in the bucket's range, in percent
MacdDraws == {-1500, 1500}         \* uniform(-1.5, 1.5)
MacdSignalDraws == {-1200}         \* uniform(-1.2, 1.2)
NoiseDraws == {-1000, 0, 1000}     \* uniform(-1, 1)
PipelineDraws ==
    [u : RsiDraws, macd : MacdDraws, macd_signal : MacdSignalDraws, noise : NoiseDraws]
\* hash(symbol) % 100, fixed for the life of the process
HashDraws == {10, 50, 90}

Abs(x) == IF x < 0 THEN 0 - x ELSE x
Min(a, b) == IF a < b THEN a ELSE b
Max(a, b) == IF a > b THEN a ELSE b

\* round(x * k / d) for x >= 0, ties to even, without leaving 32 bits
MulDivRound(x, k, d) ==
    LET hi   == x \div d
        num  == (x % d) * k
        base == hi * k + num \div d
        r    == num % d
    IN  IF 2 * r > d \/ (2 * r = d /\ base % 2 = 1) THEN base + 1 ELSE base

\* a bucket whose first threshold is one percent late
BucketShifted(change) ==
    IF change > 900 THEN <<65, 80, "bullish">>
    ELSE IF change < -600 THEN <<20, 35, "bearish">>
    ELSE IF change > 200 THEN <<55, 70, "bullish">>
    ELSE IF change < -200 THEN <<30, 45, "bearish">>
    ELSE <<40, 60, "neutral">>

\* lines 190-204: the bucket of the 24h change: <<low, high, trend>>
Bucket(change) ==
    IF change > 800 THEN <<65, 80, "bullish">>
    ELSE IF change < -600 THEN <<20, 35, "bearish">>
    ELSE IF change > 200 THEN <<55, 70, "bullish">>
    ELSE IF change < -200 THEN <<30, 45, "bearish">>
    ELSE <<40, 60, "neutral">>

\* lines 191-203: np.random.uniform(low, high) at u percent of the range
BaseRsi(b, u) == 10 * b[1] + ((b[2] - b[1]) * 10 * u) \div 100

\* a bias without the floor and the cap
BiasedRsiUnclamped(symbol_hash, base_rsi) ==
    IF symbol_hash < 20 THEN base_rsi - 150
    ELSE IF symbol_hash > 80 THEN base_rsi + 150
    ELSE base_rsi

\* lines 207-212
BiasedRsi(symbol_hash, base_rsi) ==
    IF symbol_hash < 20 THEN Max(200, base_rsi - 150)
    ELSE IF symbol_hash > 80 THEN Min(800, base_rsi + 150)
    ELSE base_rsi

\* lines 184-221
generate_indicators(symbol_hash, price_change_24h, d) ==
    LET b        == Bucket(price_change_24h)
        base_rsi == BaseRsi(b, d.u)
        rsi      == BiasedRsi(symbol_hash, base_rsi)
        trend    == IF symbol_hash < 20 THEN "bearish"
                    ELSE IF symbol_hash > 80 THEN "bullish"
                    ELSE b[3]
    IN  [rsi         |-> rsi,
         macd        |-> d.macd,
         macd_signal |-> d.macd_signal,
         trend       |-> trend,
         volatility  |-> Abs(price_change_24h),
         momentum    |-> price_change_24h]

\* lines 286-306
calculate_risk_score(indicators, market_data) ==
    LET rsi        == indicators.rsi
        volatility == indicators.volatility
        byRsi      == IF rsi > 800 \/ rsi < 200 THEN 3
                      ELSE IF rsi > 700 \/ rsi < 300 THEN 1 ELSE 0
        byVol      == IF volatility > 1000 THEN 2
                      ELSE IF volatility > 500 THEN 1 ELSE 0
    IN  Min(10, Max(1, 5 + byRsi + byVol))

\* a confidence without its upper limit
Uncapped(limit, confidence) == confidence

\* lines 269, 272, 275, 278: min(limit, confidence)
Capped(limit, confidence) == Min(limit, confidence)

\* lines 223-284: <<signal, confidence>>
generate_signal(indicators, risk_score, price_change_24h, noise) ==
    LET rsi     == indicators.rsi
        trend   == indicators.trend
        byRsi   == IF rsi < 250 THEN <<3, 25>>
                   ELSE IF rsi < 350 THEN <<2, 15>>
                   ELSE IF rsi > 750 THEN <<-3, 25>>
                   ELSE IF rsi > 650 THEN <<-2, 15>>
                   ELSE <<0, 0>>
        byTrend == IF trend = "bullish" THEN 1 ELSE IF trend = "bearish" THEN -1 ELSE 0
        byMom   == IF price_change_24h < -800 THEN 1
                   ELSE IF price_change_24h > 800 THEN -1 ELSE 0
        raw     == 1000 * (byRsi[1] + byTrend + byMom) + noise
        \* the score in 1/10000, after the risk adjustment
        score   == IF risk_score > 7 THEN 6 * raw
                   ELSE IF risk_score > 5 THEN 8 * raw ELSE 10 * raw
        conf    == 60 + byRsi[2]
    IN  IF score >= 25000 THEN <<"STRONG BUY", Capped(95, conf + 20)>>
        ELSE IF score >= 15000 THEN <<"BUY", Capped(85, conf + 10)>>
        ELSE IF score <= -25000 THEN <<"STRONG SELL", Capped(95, conf + 20)>>
        ELSE IF score <= -15000 THEN <<"SELL", Capped(85, conf + 10)>>
        ELSE <<"HOLD", Max(50, conf)>>

\* a risk multiplier of 1 - risk/10
PositionSizeRiskTenth(risk_score, confidence) ==
    LET position_size10 == (10 - risk_score) * confidence * 10
    IN  IF position_size10 < 200 * 10 THEN "Small (<=$200)"
        ELSE IF position_size10 < 600 * 10 THEN "Medium ($200-$600)"
        ELSE "Large ($600-$1000)"

\* lines 308-319: 1000 * (1 - risk/20) * confidence against 200 and 600
calculate_position_size(risk_score, confidence) ==
    LET position_size20 == (20 - risk_score) * confidence * 10
    IN  IF position_size20 < 200 * 20 THEN "Small (<=$200)"
        ELSE IF position_size20 < 600 * 20 THEN "Medium ($200-$600)"
        ELSE "Large ($600-$1000)"

\* targets with the two sides of the price swapped
TargetPercentsSwapped(signal) ==
    CASE signal = "STRONG BUY"  -> <<88, 115>>
      [] signal = "BUY"         -> <<92, 110>>
      [] signal = "STRONG SELL" -> <<112, 85>>
      [] signal = "SELL"        -> <<108, 90>>
      [] OTHER                  -> <<95, 105>>

\* lines 323-337: <<take profit, stop loss>> in percent of the price
TargetPercents(signal) ==
    CASE signal = "STRONG BUY"  -> <<115, 88>>
      [] signal = "BUY"         -> <<110, 92>>
      [] signal = "STRONG SELL" -> <<85, 112>>
      [] signal = "SELL"        -> <<90, 108>>
      [] OTHER                  -> <<105, 95>>

\* a take profit the risk does not dampen
RiskAdjustNone(risk_score) == 1000

\* line 340: risk_adjust = 1 - (risk_score * 0.005), in 1/1000
RiskAdjust(risk_score) == 1000 - 5 * risk_score

\* lines 321-356, for a price >= 0; targets in 1/1000 of a dollar, the ratio in 1/100
calculate_targets(current_price, signal, risk_score) ==
    LET m  == TargetPercents(signal)
        \* take_profit = price * m[1]/100 * (1000 - 5 risk)/1000
        tp == MulDivRound(current_price, (m[1] \div 5) * (RiskAdjust(risk_score) \div 5), 40000)
        sl == MulDivRound(current_price, m[2], 1000)
        \* |take_profit - price| / |price - stop_loss|, the price cancelled
        rr == MulDivRound(Abs(m[1] * RiskAdjust(risk_score) - 100000), 1,
                          10 * Abs(100 - m[2]))
        \* line 346: stop_diff = |price - price * m[2]/100| > 0
        stop_diff_positive == current_price # 0 /\ m[2] # 100
    IN  [take_profit       |-> tp,
         stop_loss         |-> sl,
         risk_reward_ratio |-> IF stop_diff_positive THEN rr ELSE 100]

\* lines 358-392
_get_default_signal(symbol) ==
    [symbol           |-> symbol,
     price            |-> fallback_prices(symbol),
     price_change_24h |-> 0,
     signal           |-> "HOLD",
     confidence       |-> 50,
     risk_score       |-> 5,
     position_size    |-> "Medium ($200-$600)",
     targets          |-> [take_profit       |-> MulDivRound(fallback_prices(symbol), 105, 1000),
                           stop_loss         |-> MulDivRound(fallback_prices(symbol), 95, 1000),
                           risk_reward_ratio |-> 100],
     indicators       |-> [rsi |-> 500, macd |-> 0, macd_signal |-> 0,
                           trend |-> "neutral", volatility |-> 200, momentum |-> 0],
     source           |-> "fallback",
     fallback         |-> TRUE]

\* a lookup without a default: a missing symbol raises like any bad quote
MarketDataStrict(all_data, symbol, draw) ==
    IF symbol \in DOMAIN all_data THEN all_data[symbol]
    ELSE [price |-> Null, price_change_24h |-> Null, volume |-> 0, source |-> "unknown"]

\* line 155: all_data.get(symbol, self._get_fallback_data(symbol))
MarketData(all_data, symbol, draw) ==
    Get(all_data, symbol, _get_fallback_data(symbol, draw))

\* a step of lines 157-178 raises: comparing or multiplying what is no number
Raises(market_data) ==
    market_data.price_change_24h = Null \/ market_data.price = Null

\* lines 157-178
SignalRecord(symbol, symbol_hash, market_data, d) ==
    LET current_price    == market_data.price
        price_change_24h == market_data.price_change_24h
        indicators == generate_indicators(symbol_hash, price_change_24h, d)
        risk_score == calculate_risk_score(indicators, market_data)
        sc         == generate_signal(indicators, risk_score, price_change_24h, d.noise)
    IN  [symbol           |-> symbol,
         price            |-> current_price,
         price_change_24h |-> price_change_24h,
         signal           |-> sc[1],
         confidence       |-> sc[2],
         risk_score       |-> risk_score,
         position_size    |-> calculate_position_size(risk_score, sc[2]),
         targets          |-> calculate_targets(current_price, sc[1], risk_score),
         indicators       |-> indicators,
         source           |-> market_data.source,
         fallback         |-> market_data.source = "fallback"]

\* what leaves generate_trading_signals when nothing catches the exception
Propagated == [error |-> TRUE]

\* an except clause that raises again
OnExceptionReraise(symbol) == Propagated

\* lines 180-182
OnException(symbol) == _get_default_signal(symbol)

\* lines 153-182, after get_all_prices has returned all_data
generate_trading_signals(symbol, symbol_hash, all_data, draw, d) ==
    LET market_data == MarketData(all_data, symbol, draw)
    IN  IF Raises(market_data)
        THEN OnException(symbol)
        ELSE SignalRecord(symbol, symbol_hash, market_data, d)

(* -------------------------------- state ------------------------------- *)
VARIABLES
    now,        \* datetime.now(), seconds
    data_cache, \* self.data_cache["all_prices"]: NoEntry or [quotes, timestamp]
    cache_lock, \* holder of self.cache_lock, 0 when free
    pc,         \* per thread: where it stands in get_all_prices
    live,       \* per thread: result after the loop of lines 74-83
    result,     \* per thread: the batch get_all_prices returns
    calls,      \* operations started
    sym,        \* per thread: the symbol generate_trading_signals was called with, or ""
    rec,        \* per thread: the record generate_trading_signals returns
    symHash,    \* hash(symbol) % 100 of this process
    req,        \* per thread: the dashboard request index() is serving
    fn,         \* the last call of a pipeline function made on its own
    \* history, read by the properties only
    how,        \* per thread: how its call got its batch: hit, stored, failed
    start,      \* per thread: when its call started (-1: none, or a clear came since)
    missed,     \* per thread: its call found no fresh entry
    fetched,    \* per thread: requests.get calls its call has made
    stale,      \* per thread: an entry was stored since its call missed
    first,      \* per thread: <<inv, fail>> as its call found them
    served,     \* threads holding a batch served by the entry stored last
    cachedLive, \* the live part of the entry stored last
    inv,        \* "clean"/"dirty": a clear no get has started after, dirty once a store followed
    fail,       \* "clean"/"dirty": a failed call no get has started after, dirty if a store
                \* followed that call's check
    order       \* the order the responses came in, kept where Init switches it on

vars == <<now, data_cache, cache_lock, pc, live, result, calls, sym, rec, symHash,
          how, start, missed, fetched, stale, first, served, cachedLive, inv, fail,
          req, fn, order>>

sigvars == <<sym, rec, symHash>>

hist == <<how, start, missed, fetched, stale, first, served, cachedLive, inv, fail>>

NoEntry == [quotes |-> <<>>, timestamp |-> -1]
NoData == <<>>

\* no request being served
NoReq == [stage |-> "none", refresh |-> FALSE, began |-> -1, i |-> 0, done |-> 0,
          cleared |-> 0, fetches |-> 0, firstHow |-> "none", batches |-> {}]
\* no function called yet
NoCall == [op |-> "none"]
\* responses not numbered
NoOrder == [on |-> FALSE, next |-> 0, of |-> [p \in Procs |-> 0], cached |-> 0]

\* line 60: the response of thread p is the next to come in
Received(o, p) ==
    IF o.on THEN [o EXCEPT !.next = @ + 1, !.of[p] = o.next + 1] ELSE o

\* line 91: the batch of thread p is the one in the cache
Stored(o, p) == IF o.on THEN [o EXCEPT !.cached = o.of[p]] ELSE o

\* (datetime.now() - timestamp).seconds
Seconds(t, timestamp) == (t - timestamp) % DaySeconds

\* line 41 with the comparison turned round
IsFreshInverted(t, entry) == Seconds(t, entry.timestamp) > cache_duration

\* line 41
IsFresh(t, entry) == Seconds(t, entry.timestamp) < cache_duration

InitCache ==
    /\ now = 0
    /\ data_cache = NoEntry
    /\ cache_lock = 0
    /\ pc = [p \in Procs |-> "idle"]
    /\ live = [p \in Procs |-> NoData]
    /\ result = [p \in Procs |-> NoData]
    /\ calls = 0
    /\ how = [p \in Procs |-> "none"]
    /\ start = [p \in Procs |-> -1]
    /\ missed = [p \in Procs |-> FALSE]
    /\ fetched = [p \in Procs |-> 0]
    /\ stale = [p \in Procs |-> FALSE]
    /\ first = [p \in Procs |-> <<"none", "none">>]
    /\ served = {}
    /\ cachedLive = NoData
    /\ inv = "none"
    /\ fail = "none"
    /\ sym = [p \in Procs |-> ""]
    /\ rec = [p \in Procs |-> NoData]
    /\ req = [p \in Procs |-> NoReq]
    /\ fn = NoCall

Init == InitCache /\ symHash = [s \in Symbols |-> 50] /\ order = NoOrder

InitSig == InitCache /\ symHash \in [Symbols -> HashDraws] /\ order = NoOrder

InitRace ==
    InitCache /\ symHash = [s \in Symbols |-> 50] /\ order = [NoOrder EXCEPT !.on = TRUE]

(* ------------------------------- clock -------------------------------- *)
Tick ==
    /\ now % DaySeconds < MaxTicks * TickStep
    /\ now' = now + TickStep
    /\ UNCHANGED <<data_cache, cache_lock, pc, live, result, calls, sigvars, hist,
                   req, fn, order>>

DayPasses ==
    /\ now < DaySeconds
    /\ now' = now + DaySeconds
    /\ UNCHANGED <<data_cache, cache_lock, pc, live, result, calls, sigvars, hist,
                   req, fn, order>>

(* --------------------------- get_all_prices --------------------------- *)
\* a with-block that is left only once the fetch has come back
LockHeldOverFetch(p, hit) == IF hit THEN 0 ELSE p

\* the lock when the with-block of lines 38-44 is left
LockAfterCheck(p, hit) == 0

\* a hit that renews the entry
EntryTouchedByHit(entry, t) == [entry EXCEPT !.timestamp = t]

\* the entry a hit leaves in the cache
EntryAfterHit(entry, t) == entry

\* a hit that draws the fallback quotes of the entry again
HitResultRedrawn(entry) ==
    [s \in DOMAIN entry.quotes |->
        IF entry.quotes[s].source = "fallback"
        THEN _get_fallback_data(s, <<2, 500>>)
        ELSE entry.quotes[s]]

\* the batch a hit returns
HitResult(entry) == entry.quotes

\* a caller that leaves the fetch to a caller already fetching
AfterMissCoalesced(p, fetching) == IF fetching # {} THEN "ret" ELSE "fetch"

\* where a caller that found no fresh entry goes: to its own fetch
AfterMiss(p, fetching) == "fetch"

\* lines 38-44: the caller takes the lock, looks the entry up and leaves the lock
Check(p) ==
    /\ pc[p] = "idle"
    /\ calls < MaxCalls
    /\ cache_lock = 0
    /\ calls' = calls + 1
    /\ start' = [start EXCEPT ![p] = now]
    /\ fetched' = [fetched EXCEPT ![p] = 0]
    /\ stale' = [stale EXCEPT ![p] = FALSE]
    /\ first' = [first EXCEPT ![p] = <<inv, fail>>]
    /\ inv' = "none"
    /\ fail' = "none"
    /\ IF data_cache # NoEntry /\ IsFresh(now, data_cache)
       THEN /\ result' = [result EXCEPT ![p] = HitResult(data_cache)]
            /\ data_cache' = EntryAfterHit(data_cache, now)
            /\ pc' = [pc EXCEPT ![p] = "ret"]
            /\ how' = [how EXCEPT ![p] = "hit"]
            /\ missed' = [missed EXCEPT ![p] = FALSE]
            /\ served' = served \cup {p}
            /\ cache_lock' = LockAfterCheck(p, TRUE)
       ELSE /\ data_cache' = NoEntry
            /\ pc' = [pc EXCEPT ![p] = AfterMiss(p, {q \in Procs : pc[q] = "fetch"})]
            /\ missed' = [missed EXCEPT ![p] = TRUE]
            /\ cache_lock' = LockAfterCheck(p, FALSE)
            /\ UNCHANGED <<result, how, served>>
    /\ UNCHANGED <<now, live, cachedLive, rec, symHash, fn, order>>

\* line 34: get_all_prices called on its own
CallGet(p) == Check(p) /\ sym' = [sym EXCEPT ![p] = ""] /\ UNCHANGED req

\* lines 151-154: generate_trading_signals(symbol) calls get_all_prices
CallSignal(p) ==
    Check(p) /\ (\E s \in Symbols : sym' = [sym EXCEPT ![p] = s]) /\ UNCHANGED req

\* lines 60-88: status 200 and a body the loop accepts
FetchOk(p, payloads) ==
    /\ pc[p] = "fetch"
    /\ \E body \in ResponsesOf(payloads) :
         \E draws \in [Coins \ DOMAIN LiveResult(body) -> FallbackDraws] :
            /\ live' = [live EXCEPT ![p] = LiveResult(body)]
            /\ result' = [result EXCEPT ![p] =
                  FillMissing(LiveResult(body),
                              [s \in DOMAIN draws |-> _get_fallback_data(s, draws[s])])]
    /\ pc' = [pc EXCEPT ![p] = "store"]
    /\ fetched' = [fetched EXCEPT ![p] = @ + 1]
    /\ order' = Received(order, p)
    /\ UNCHANGED <<now, data_cache, cache_lock, calls, how, start, missed,
                   stale, first, served, cachedLive, inv, fail, sigvars, req, fn>>

\* a failure path that caches the fallback batch
CacheFailureStored(entry, batch, t) == [quotes |-> batch, timestamp |-> t]

\* the cache after the failure path of lines 95-101
CacheAfterFailure(entry, batch, t) == entry

\* lines 95-101: any other status, a timeout, an unreadable body
FetchFail(p) ==
    /\ pc[p] = "fetch"
    /\ \E draws \in [Coins -> FallbackDraws] :
         /\ result' = [result EXCEPT ![p] = _get_all_fallback_data(draws)]
         /\ data_cache' = CacheAfterFailure(data_cache, result'[p], now)
    /\ pc' = [pc EXCEPT ![p] = "ret"]
    /\ how' = [how EXCEPT ![p] = "failed"]
    /\ fetched' = [fetched EXCEPT ![p] = @ + 1]
    /\ fail' = IF stale[p] THEN "dirty" ELSE "clean"
    /\ UNCHANGED <<now, cache_lock, live, calls, start, missed, stale, first,
                   served, cachedLive, inv, sigvars, req, fn, order>>

\* a store that leaves an entry another caller has written
EntryStoredIfAbsent(entry, batch, t) ==
    IF entry = NoEntry THEN [quotes |-> batch, timestamp |-> t] ELSE entry

\* line 91: self.data_cache[cache_key] = (result, datetime.now())
EntryStored(entry, batch, t) == [quotes |-> batch, timestamp |-> t]

\* lines 90-91: the caller takes the lock again and writes the entry
Store(p) ==
    /\ pc[p] = "store"
    /\ cache_lock = 0
    /\ data_cache' = EntryStored(data_cache, result[p], now)
    /\ order' = Stored(order, p)
    /\ pc' = [pc EXCEPT ![p] = "ret"]
    /\ how' = [how EXCEPT ![p] = "stored"]
    /\ served' = {p}
    /\ cachedLive' = live[p]
    /\ live' = [live EXCEPT ![p] = NoData]
    /\ stale' = [q \in Procs |-> pc[q] = "fetch"]
    /\ inv' = IF inv = "none" THEN "none" ELSE "dirty"
    /\ fail' = IF fail = "none" THEN "none" ELSE "dirty"
    /\ UNCHANGED <<now, cache_lock, result, calls, start, missed, fetched, first, sigvars,
                   req, fn>>

\* the thread is done with the batch and the record
Forget(p) ==
    /\ pc' = [pc EXCEPT ![p] = "idle"]
    /\ result' = [result EXCEPT ![p] = NoData]
    /\ rec' = [rec EXCEPT ![p] = NoData]
    /\ sym' = [sym EXCEPT ![p] = ""]
    /\ how' = [how EXCEPT ![p] = "none"]
    /\ start' = [start EXCEPT ![p] = -1]
    /\ missed' = [missed EXCEPT ![p] = FALSE]
    /\ fetched' = [fetched EXCEPT ![p] = 0]
    /\ served' = served \ {p}
    /\ first' = [first EXCEPT ![p] = <<"none", "none">>]
    /\ UNCHANGED <<now, data_cache, cache_lock, live, calls, stale, cachedLive, inv, fail,
                   symHash, fn, order>>

\* lines 42, 94, 97, 101: the batch goes back to whoever called get_all_prices
Return(p) ==
    /\ pc[p] = "ret"
    /\ sym[p] = ""
    /\ Forget(p)
    /\ UNCHANGED req

(* ---------------------- generate_trading_signals ---------------------- *)
\* lines 155-182: the record is built from the batch get_all_prices returned
Signal(p) ==
    /\ pc[p] = "ret"
    /\ sym[p] # ""
    /\ \E draw \in FallbackDraws, d \in PipelineDraws :
         rec' = [rec EXCEPT ![p] =
                   generate_trading_signals(sym[p], symHash[sym[p]], result[p], draw, d)]
    /\ pc' = [pc EXCEPT ![p] = "sret"]
    /\ UNCHANGED <<now, data_cache, cache_lock, live, result, calls, sym, symHash, hist,
                   req, fn, order>>

\* the record goes back to the caller
ReturnSignal(p) ==
    /\ pc[p] = "sret"
    /\ req[p].stage = "none"
    /\ Forget(p)
    /\ UNCHANGED req

(* ----------------------- force_refresh_all_data ----------------------- *)
\* a clear that leaves the entry
ClearedNothing(entry) == entry

\* self.data_cache.clear()
Cleared(entry) == NoEntry

\* lines 147-149: the lock is taken, the cache emptied, the lock left
ClearCache(p) ==
    /\ pc[p] = "idle"
    /\ calls < MaxCalls
    /\ cache_lock = 0
    /\ calls' = calls + 1
    /\ data_cache' = Cleared(data_cache)
    /\ inv' = "clean"
    /\ start' = [q \in Procs |-> -1]
    /\ UNCHANGED <<now, cache_lock, pc, live, result, how, missed, fetched,
                   stale, first, served, cachedLive, fail, sigvars, fn, order>>

\* line 145: force_refresh_all_data called on its own
Clear(p) == ClearCache(p) /\ req[p].stage = "none" /\ UNCHANGED req

(* -------------------------------- index ------------------------------- *)
\* everything index() does not touch when it only moves on in its own body
served_state == <<now, data_cache, cache_lock, pc, live, result, calls, sigvars, hist,
                  fn, order>>

\* a handler that never looks at the flag
StageIgnoringFlag(refresh) == "loop"

\* lines 584-586: with the flag the handler clears the cache first
StageAfterFlag(refresh) == IF refresh THEN "refresh" ELSE "loop"

\* lines 581-585: a request comes in, with or without refresh=true
Index(p) ==
    /\ req[p].stage = "none"
    /\ pc[p] = "idle"
    /\ calls < MaxCalls
    /\ \E refresh \in BOOLEAN :
         req' = [req EXCEPT ![p] = [NoReq EXCEPT !.stage = StageAfterFlag(refresh),
                                                !.refresh = refresh,
                                                !.began = now]]
    /\ UNCHANGED served_state

\* line 586: analyzer.force_refresh_all_data()
IndexRefresh(p) ==
    /\ req[p].stage = "refresh"
    /\ ClearCache(p)
    /\ req' = [req EXCEPT ![p].stage = "loop", ![p].cleared = @ + 1]

\* lines 589-590: the next coin of analyzer.coins
IndexSignal(p) ==
    /\ req[p].stage = "loop"
    /\ req[p].i = req[p].done
    /\ \E k \in DOMAIN coins :
         /\ coins[k] \in Coins
         /\ Cardinality({j \in 1..k : coins[j] \in Coins}) = req[p].i + 1
         /\ sym' = [sym EXCEPT ![p] = coins[k]]
    /\ Check(p)
    /\ req' = [req EXCEPT ![p].i = @ + 1]

\* lines 590-604: the record joins the list
IndexCollect(p) ==
    /\ req[p].stage = "loop"
    /\ pc[p] = "sret"
    /\ Forget(p)
    /\ req' = [req EXCEPT ![p].done = @ + 1,
                          ![p].fetches = @ + fetched[p],
                          ![p].firstHow = IF req[p].done = 0 THEN how[p] ELSE @,
                          ![p].batches = @ \cup {result[p]}]

\* lines 606-607: the page is rendered
IndexRender(p) ==
    /\ req[p].stage = "loop"
    /\ req[p].done = Cardinality(Coins)
    /\ req' = [req EXCEPT ![p] = NoReq]
    /\ UNCHANGED served_state

(* ------------------- the pipeline functions on their own -------------- *)
\* everything a call of a pipeline function leaves alone
rest == <<now, data_cache, cache_lock, pc, live, result, calls, sigvars, hist, req, order>>

\* arguments the calls are made with
FnChanges == {-1200, -1001, -900, -801, -800, -601, -600, -500, -201, -200, 0,
              200, 201, 500, 501, 800, 801, 900, 1000, 1001, 1200}
FnHashes == {0, 19, 20, 50, 80, 81, 99}
FnDraws ==
    [u : {5 * k : k \in 0..20} \cup {33, 34, 66, 67}, macd : {1500}, macd_signal : {-1200},
     noise : {125 * k : k \in -8..8}]
FnPrices == {0, 1, 4, 850, 4800, 9999, 10000, 365000, 1000000, 10000000}
Signals == {"STRONG BUY", "BUY", "HOLD", "SELL", "STRONG SELL"}
Risks == 1..10
FnConfidences == 50..95

\* lines 157-178 on a quote with the given change
ApplyPipeline ==
    /\ fn = NoCall
    /\ \E change \in FnChanges, h \in FnHashes, d \in FnDraws :
         fn' = [op     |-> "record",
                change |-> change,
                hash   |-> h,
                base   |-> BaseRsi(Bucket(change), d.u),
                noise  |-> d.noise,
                out    |-> SignalRecord(coins[1], h,
                                        [price |-> fallback_prices(coins[1]),
                                         price_change_24h |-> change,
                                         volume |-> 0, source |-> "coingecko"], d)]
    /\ UNCHANGED rest

\* lines 321-356
ApplyTargets ==
    /\ fn = NoCall
    /\ \E price \in FnPrices, signal \in Signals, risk \in Risks :
         fn' = [op     |-> "targets",
                price  |-> price,
                signal |-> signal,
                risk   |-> risk,
                out    |-> calculate_targets(price, signal, risk)]
    /\ UNCHANGED rest

\* lines 358-392
ApplyDefault ==
    /\ fn = NoCall
    /\ \E s \in Symbols : fn' = [op |-> "default", out |-> _get_default_signal(s)]
    /\ UNCHANGED rest

\* lines 308-319
ApplyPositionSize ==
    /\ fn = NoCall
    /\ \E risk \in Risks, confidence \in FnConfidences :
         fn' = [op         |-> "position",
                risk       |-> risk,
                confidence |-> confidence,
                out        |-> calculate_position_size(risk, confidence)]
    /\ UNCHANGED rest

(* ---------------------------- specification --------------------------- *)
\* threads racing on the cache within one clock reading
Next ==
    \/ \E p \in Procs :
         \/ CallGet(p)
         \/ FetchOk(p, {FullPayload})
         \/ FetchFail(p)
         \/ Store(p)
         \/ Return(p)
         \/ Clear(p)

Spec == Init /\ [][Next]_vars

\* one thread, and a clock that also runs for a day
NextTTL ==
    \/ Tick
    \/ DayPasses
    \/ CallGet(1)
    \/ FetchOk(1, {FullPayload})
    \/ FetchFail(1)
    \/ Store(1)
    \/ Return(1)
    \/ Clear(1)

SpecTTL == Init /\ [][NextTTL]_vars

\* one thread asking for records, under every hash of the symbols
NextSig ==
    \/ CallSignal(1)
    \/ FetchOk(1, LivePayloads)
    \/ FetchFail(1)
    \/ Store(1)
    \/ Signal(1)
    \/ ReturnSignal(1)

SpecSig == InitSig /\ [][NextSig]_vars

\* one thread serving dashboard requests one after the other, the clock running
NextReq ==
    \/ Tick
    \/ Index(1)
    \/ IndexRefresh(1)
    \/ IndexSignal(1)
    \/ FetchOk(1, {FullPayload})
    \/ FetchFail(1)
    \/ Store(1)
    \/ Signal(1)
    \/ IndexCollect(1)
    \/ IndexRender(1)

SpecReq == Init /\ [][NextReq]_vars

\* one call of a pipeline function on its own, with every argument
NextFn ==
    \/ ApplyPipeline
    \/ ApplyTargets
    \/ ApplyDefault
    \/ ApplyPositionSize

SpecFn == Init /\ [][NextFn]_vars

\* threads racing on the cache, the responses numbered as they come in
NextRace ==
    \/ \E p \in Procs :
         \/ CallGet(p)
         \/ FetchOk(p, {FullPayload})
         \/ Store(p)
         \/ Return(p)

SpecRace == InitRace /\ [][NextRace]_vars

(* ------------------------------ properties ---------------------------- *)
\* thread p's call takes lines 38-44 in this step
CheckStep(p) == pc[p] = "idle" /\ pc'[p] # "idle"
\* thread p's fetch fails in this step
FailStep(p) == pc[p] = "fetch" /\ pc'[p] = "ret"
Age == now - data_cache.timestamp
AllFallback(batch) ==
    DOMAIN batch = Coins /\ \A s \in Coins : batch[s].source = "fallback"

\* C1: an entry older than the 30 second TTL, however much older, is treated as
\* absent and fetched again; only an entry younger than 30 seconds is served.
C1_ExpiredIsRefetched ==
    [][\A p \in Procs :
         CheckStep(p) /\ data_cache # NoEntry =>
            /\ (Age > cache_duration => pc'[p] = "fetch")
            /\ (pc'[p] = "ret" => Age < cache_duration)]_vars

\* C2 as claimed: two calls that start within the TTL of each other, with no
\* clear between them, return identical batches.
C2_SameBatchWithinTTL ==
    \A p, q \in Procs :
        /\ pc[p] = "ret" /\ pc[q] = "ret"
        /\ start[p] >= 0 /\ start[q] >= 0
        /\ start[p] - start[q] < cache_duration
        /\ start[q] - start[p] < cache_duration
        => result[p] = result[q]

\* C2 as amended: the calls served by one cache entry, the call that stored it
\* and the calls that hit it, return identical batches.
C2_SameEntrySameBatch ==
    \A p, q \in served :
        /\ pc[p] = "ret" /\ how[p] \in {"hit", "stored"}
        /\ result[p] = result[q]
        /\ (data_cache # NoEntry => result[p] = data_cache.quotes)

C2_Witness ==
    \E p, q \in served : p # q /\ how[p] = "stored" /\ how[q] = "hit"

\* C3 as claimed: the first call to start after a clear misses the cache,
\* whatever calls are in flight when the clear runs.
C3_FirstGetAfterClearMisses ==
    [][\A p \in Procs : CheckStep(p) /\ inv # "none" => pc'[p] = "fetch"]_vars

\* C3 as amended: after a clear the cache stays empty until a call in flight
\* stores its batch, and the first call to start before that misses and goes
\* on to fetch.
C3_FirstGetAfterClearMissesUnlessStored ==
    /\ [](inv = "clean" => data_cache = NoEntry)
    /\ [][\A p \in Procs : CheckStep(p) /\ inv = "clean" =>
             pc'[p] = "fetch" /\ missed'[p]]_vars

C3_Witness ==
    \E p, q \in Procs :
        /\ p # q /\ pc[q] \in {"fetch", "store"}
        /\ first[p][1] = "clean" /\ pc[p] = "store" /\ fetched[p] = 1

\* C4 as claimed: a failed fetch returns an all-fallback batch and leaves the
\* cache alone, so the next call fetches again.
C4_FailureRefetchedNext ==
    /\ [][\A p \in Procs : FailStep(p) =>
             AllFallback(result'[p]) /\ data_cache' = data_cache]_vars
    /\ [][\A p \in Procs : CheckStep(p) /\ fail # "none" => pc'[p] = "fetch"]_vars

\* C4 as amended: a failed fetch returns an all-fallback batch and leaves the
\* cache alone; the next call fetches again unless another caller stored a
\* batch after the failed call's own look at the cache.
C4_FailureNotCached ==
    /\ [][\A p \in Procs : FailStep(p) =>
             AllFallback(result'[p]) /\ data_cache' = data_cache]_vars
    /\ [](fail = "clean" => data_cache = NoEntry)
    /\ [][\A p \in Procs : CheckStep(p) /\ fail = "clean" => pc'[p] = "fetch"]_vars

C4_Witness ==
    \E p \in Procs : first[p][2] = "clean" /\ pc[p] = "store" /\ fetched[p] = 1

\* C5: a call that finds an entry younger than the TTL returns the stored
\* quotes, fetches nothing and leaves the entry, timestamp included, as it was.
C5_HitLeavesEntry ==
    /\ [][\A p \in Procs :
            CheckStep(p) /\ data_cache # NoEntry /\ Age < cache_duration =>
               /\ pc'[p] = "ret"
               /\ result'[p] = data_cache.quotes
               /\ data_cache' = data_cache
               /\ fetched'[p] = 0]_vars
    /\ [](\A p \in Procs : how[p] = "hit" => fetched[p] = 0)

C5_Witness ==
    \E p \in Procs :
        /\ pc[p] = "ret" /\ how[p] = "hit"
        /\ data_cache # NoEntry /\ Age = TickStep

\* C6: every caller that finds no fresh entry performs a fetch of its own, so
\* N callers that miss together make N fetches.
C6_OneFetchPerMiss ==
    \A p \in Procs :
        /\ missed[p] =>
              \/ pc[p] = "fetch" /\ fetched[p] = 0
              \/ pc[p] \in {"store", "ret"} /\ fetched[p] = 1 /\ how[p] # "hit"
        /\ how[p] = "hit" => ~missed[p] /\ fetched[p] = 0

C6_Witness ==
    /\ calls = NumProcs
    /\ data_cache = NoEntry
    /\ \A p \in Procs : missed[p] /\ pc[p] = "store" /\ fetched[p] = 1

\* C7: the lock is free whenever a fetch is pending, so that a hit, a store or
\* a clear of another thread can run before the fetch comes back.
C7_LockFreeDuringFetch ==
    \A p \in Procs : pc[p] = "fetch" =>
        /\ cache_lock = 0
        /\ \A q \in Procs \ {p} :
              /\ (pc[q] = "idle" /\ calls < MaxCalls => ENABLED Check(q) /\ ENABLED Clear(q))
              /\ (pc[q] = "store" => ENABLED Store(q))

C7_Witness ==
    \E p, q \in Procs :
        /\ pc[p] = "fetch"
        /\ pc[q] = "ret" /\ how[q] = "hit"
        /\ data_cache # NoEntry

\* C8: a cached entry covers exactly the tracked symbols: the live quote for
\* each symbol of the response, a fallback quote for each symbol it lacked.
C8_EntryCoversTrackedSymbols ==
    data_cache # NoEntry =>
        /\ DOMAIN data_cache.quotes = Coins
        /\ DOMAIN cachedLive \subseteq Coins
        /\ \A s \in Coins :
              IF s \in DOMAIN cachedLive
              THEN /\ data_cache.quotes[s] = cachedLive[s]
                   /\ data_cache.quotes[s].source = "coingecko"
              ELSE data_cache.quotes[s].source = "fallback"

C8_Witness ==
    /\ data_cache # NoEntry
    /\ \E s, t \in Coins :
          /\ data_cache.quotes[s].source = "coingecko"
          /\ data_cache.quotes[t].source = "fallback"

\* the fixed neutral record: HOLD, confidence 0.5, risk 5, oscillator 50, fallback
IsNeutralDefault(r, symbol) ==
    /\ r.symbol = symbol
    /\ r.signal = "HOLD"
    /\ r.confidence = 50
    /\ r.risk_score = 5
    /\ r.indicators.rsi = 500
    /\ r.fallback = TRUE

\* the quote line 155 hands to the pipeline, when the batch holds the symbol
Quoted(p) == result[p][sym[p]]

\* C9: generate_trading_signals never lets an error out: when a step raises on
\* the quote, what it returns is the fixed neutral default record of the symbol.
C9_RaiseGivesDefault ==
    \A p \in Procs : pc[p] = "sret" =>
        /\ rec[p] # Propagated
        /\ "signal" \in DOMAIN rec[p]
        /\ (sym[p] \in DOMAIN result[p] /\ Raises(Quoted(p)) =>
               /\ IsNeutralDefault(rec[p], sym[p])
               /\ rec[p] = _get_default_signal(sym[p]))

C9_Witness ==
    \E p \in Procs :
        /\ pc[p] = "sret"
        /\ sym[p] \in DOMAIN result[p]
        /\ Quoted(p).source = "coingecko"
        /\ Quoted(p).price = Null
        /\ IsNeutralDefault(rec[p], sym[p])

\* C10 as claimed: a symbol missing from the batch gets the fixed neutral
\* default record.
C10_MissingGivesDefault ==
    \A p \in Procs : pc[p] = "sret" /\ sym[p] \notin DOMAIN result[p] =>
        IsNeutralDefault(rec[p], sym[p])

\* C10 as amended: a symbol missing from the batch gets a record the pipeline
\* derives from a fresh fallback quote: within 2% of the symbol's base price
\* (100 for an unknown symbol), change within [-5, 5], marked fallback, its
\* indicators computed from that change.
C10_MissingGivesFallbackRecord ==
    \A p \in Procs : pc[p] = "sret" /\ sym[p] \notin DOMAIN result[p] =>
        /\ rec[p].symbol = sym[p]
        /\ rec[p].source = "fallback" /\ rec[p].fallback = TRUE
        /\ 100 * Abs(rec[p].price - fallback_prices(sym[p])) <= 2 * fallback_prices(sym[p])
        /\ Abs(rec[p].price_change_24h) <= 500
        /\ rec[p].indicators.momentum = rec[p].price_change_24h
        /\ rec[p].indicators.volatility = Abs(rec[p].price_change_24h)
        /\ rec[p].indicators.trend = IF symHash[sym[p]] < 20 THEN "bearish"
                                     ELSE IF symHash[sym[p]] > 80 THEN "bullish"
                                     ELSE Bucket(rec[p].price_change_24h)[3]

C10_Witness ==
    \E p \in Procs :
        /\ pc[p] = "sret" /\ sym[p] \notin DOMAIN result[p]
        /\ rec[p].fallback = TRUE
        /\ rec[p].signal # "HOLD"

\* C11: when the fetch of a call fails, the record of a tracked symbol is
\* derived without any raise from the fallback quote of the all-fallback
\* batch, and carries source fallback and fallback true.
C11_FailedFetchGivesFallbackRecords ==
    \A p \in Procs : pc[p] = "sret" /\ how[p] = "failed" /\ sym[p] \in Coins =>
        /\ AllFallback(result[p])
        /\ ~Raises(Quoted(p))
        /\ rec[p].source = "fallback" /\ rec[p].fallback = TRUE
        /\ rec[p].price = Quoted(p).price
        /\ rec[p].price_change_24h = Quoted(p).price_change_24h

C11_Witness ==
    \E p \in Procs :
        /\ pc[p] = "sret" /\ how[p] = "failed" /\ sym[p] \in Coins
        /\ data_cache = NoEntry
        /\ rec[p].fallback = TRUE /\ rec[p].signal # "HOLD"

\* C12: a request with the refresh flag has cleared the cache, once, before its
\* first generate_trading_signals call starts; a request without the flag never
\* clears it.
C12_RefreshBeforeSignals ==
    \A p \in Procs :
        /\ (req[p].stage = "refresh" => req[p].i = 0 /\ req[p].cleared = 0 /\ sym[p] = "")
        /\ (req[p].stage = "loop" => req[p].cleared = IF req[p].refresh THEN 1 ELSE 0)
        /\ (req[p].i > 0 => req[p].stage = "loop")

C12_Witness ==
    \E p \in Procs :
        /\ req[p].refresh /\ req[p].cleared = 1
        /\ req[p].i = 1 /\ pc[p] = "fetch" /\ first[p][1] = "clean"

\* C18 as claimed: the calls of one request, served alone, cause at most one
\* fetch and all its records come from one batch.
C18_OneFetchPerRequest ==
    \A p \in Procs :
        req[p].fetches <= 1 /\ Cardinality(req[p].batches) <= 1

\* C18 as amended: the calls of one request, served alone, cause at most one
\* fetch each; when the first call's fetch succeeds and the request ends within
\* the TTL, that is the only fetch and all records come from its batch.
C18_OneFetchWhenFirstStored ==
    \A p \in Procs :
        /\ req[p].fetches <= req[p].done
        /\ (req[p].firstHow = "stored" /\ now - req[p].began < cache_duration =>
               /\ req[p].fetches = 1
               /\ Cardinality(req[p].batches) = 1
               /\ (pc[p] = "sret" => fetched[p] = 0 /\ result[p] \in req[p].batches))

C18_Witness ==
    \E p \in Procs :
        /\ req[p].done = Cardinality(Coins)
        /\ req[p].firstHow = "stored"
        /\ req[p].fetches = 1 /\ Cardinality(req[p].batches) = 1
        /\ now - req[p].began < cache_duration

\* thread p writes its batch to the cache in this step
StoreStep(p) == pc[p] = "store" /\ pc'[p] = "ret"

\* C19 as claimed: a store never replaces the batch in the cache by a batch
\* whose response came in earlier.
C19_NewerBatchKept ==
    [][\A p \in Procs :
         StoreStep(p) /\ data_cache # NoEntry => order.of[p] >= order.cached]_vars

\* C19 as amended: every store replaces the entry by the storing caller's own
\* batch, stamped with the time of the store, whichever response came in first.
C19_LastStoreWins ==
    [][\A p \in Procs :
         StoreStep(p) =>
            /\ data_cache'.quotes = result[p]
            /\ data_cache'.timestamp = now
            /\ order'.cached = order.of[p]]_vars

C19_Witness ==
    \E p, q \in Procs :
        /\ how[p] = "stored" /\ how[q] = "stored"
        /\ order.of[p] < order.of[q]
        /\ order.cached = order.of[p]
        /\ data_cache.quotes = result[p] /\ result[p] # result[q]

\* the call made last was generate_trading_signals' pipeline with no bias
Plus9Unbiased == fn.op = "record" /\ fn.change = 900 /\ fn.hash \in 20..80

\* C13 as claimed: a change of +9 with no bias gives an oscillator in [65, 80],
\* trend bullish, and a class among STRONG BUY, BUY and HOLD.
C13_Plus9NeverSells ==
    Plus9Unbiased =>
        /\ fn.out.indicators.rsi \in 650..800
        /\ fn.out.indicators.trend = "bullish"
        /\ fn.out.signal \in {"STRONG BUY", "BUY", "HOLD"}

\* C13 as amended: a change of +9 with no bias gives an oscillator in [65, 80],
\* trend bullish, and a class among HOLD, SELL and STRONG SELL, never a BUY.
C13_Plus9NeverBuys ==
    Plus9Unbiased =>
        /\ fn.out.indicators.rsi \in 650..800
        /\ fn.out.indicators.trend = "bullish"
        /\ fn.out.signal \in {"HOLD", "SELL", "STRONG SELL"}
        /\ (fn.out.indicators.rsi > 750 => fn.out.signal # "HOLD")

C13_Witness ==
    Plus9Unbiased /\ fn.out.signal = "STRONG SELL" /\ fn.out.risk_score = 7

\* C14: the risk/reward ratio is 1.0 exactly when the price equals the
\* unrounded stop loss, for every price, class and risk in 1..10.
C14_RatioOneIffDegenerate ==
    fn.op = "targets" =>
        (fn.out.risk_reward_ratio = 100
           <=> 100 * fn.price = TargetPercents(fn.signal)[2] * fn.price)

C14_Witness ==
    /\ fn.op = "targets" /\ fn.price > 0 /\ fn.signal = "HOLD" /\ fn.risk = 1
    /\ fn.out.risk_reward_ratio = 90

\* C15: every record, from the pipeline or the default, has a risk score in
\* 1..10 and a confidence in [0, 1].
C15_RiskAndConfidenceInRange ==
    fn.op \in {"record", "default"} =>
        /\ fn.out.risk_score \in 1..10
        /\ fn.out.confidence \in 0..100

C15_Witness ==
    fn.op = "record" /\ fn.out.signal = "STRONG BUY" /\ fn.out.confidence = 95

\* C16: the oscillator lies in [20, 80]; a hash below 20 lowers it by 15 down
\* to 20 at most and forces bearish, a hash above 80 raises it by 15 up to 80 at
\* most and forces bullish, any other hash leaves the bucket's value and trend.
C16_BiasWithinRange ==
    fn.op = "record" =>
        LET ind == fn.out.indicators IN
        /\ ind.rsi \in 200..800
        /\ (fn.hash < 20 =>
              /\ ind.trend = "bearish"
              /\ ind.rsi = IF fn.base - 150 < 200 THEN 200 ELSE fn.base - 150)
        /\ (fn.hash > 80 =>
              /\ ind.trend = "bullish"
              /\ ind.rsi = IF fn.base + 150 > 800 THEN 800 ELSE fn.base + 150)
        /\ (fn.hash \in 20..80 =>
              /\ ind.rsi = fn.base
              /\ ind.trend = Bucket(fn.change)[3])

C16_Witness ==
    /\ fn.op = "record" /\ fn.hash < 20 /\ fn.base < 350
    /\ fn.out.indicators.rsi = 200 /\ fn.out.indicators.trend = "bearish"

\* C17: every quote of a batch get_all_prices returns has a price above 0 and a
\* volume of 0 or more.
C17_QuotesPositive ==
    \A p \in Procs : pc[p] \in {"ret", "sret"} =>
        \A s \in DOMAIN result[p] :
            result[p][s].price > 0 /\ result[p][s].volume >= 0

\* the price rounded like the targets, in 1/1000 of a dollar
Round3(price) == MulDivRound(price, 1, 10)
BuySide(signal) == signal \in {"STRONG BUY", "BUY", "HOLD"}

\* C20 as claimed: for a price above 0 the take profit is above and the stop
\* loss below the price for STRONG BUY, BUY and HOLD, the other way round for
\* SELL and STRONG SELL, at every risk in 1..10.
C20_TargetsOnTheirSides ==
    fn.op = "targets" /\ fn.price > 0 =>
        IF BuySide(fn.signal)
        THEN 10 * fn.out.take_profit > fn.price /\ fn.price > 10 * fn.out.stop_loss
        ELSE 10 * fn.out.take_profit < fn.price /\ fn.price < 10 * fn.out.stop_loss

\* C20 as amended: that holds for a price of 1 or more, except for HOLD at
\* risk 10, where the take profit is below the price; for a smaller price the
\* rounded targets are on their side of the rounded price or equal to it.
C20_TargetsOnTheirSidesFromOne ==
    fn.op = "targets" /\ fn.price > 0 =>
        LET tp == fn.out.take_profit
            sl == fn.out.stop_loss
            dampedHold == fn.signal = "HOLD" /\ fn.risk = 10
        IN  /\ (fn.price >= 10000 /\ ~dampedHold =>
                   IF BuySide(fn.signal)
                   THEN 10 * tp > fn.price /\ fn.price > 10 * sl
                   ELSE 10 * tp < fn.price /\ fn.price < 10 * sl)
            /\ (fn.price >= 10000 /\ dampedHold =>
                   10 * tp < fn.price /\ fn.price > 10 * sl)
            /\ (~dampedHold =>
                   IF BuySide(fn.signal)
                   THEN tp >= Round3(fn.price) /\ Round3(fn.price) >= sl
                   ELSE tp <= Round3(fn.price) /\ Round3(fn.price) <= sl)

C20_Witness ==
    /\ fn.op = "targets" /\ fn.price = 10000 /\ fn.signal = "HOLD" /\ fn.risk = 9
    /\ 10 * fn.out.take_profit > fn.price

\* C21: for every risk in 1..10 and every confidence from 0.5 to 0.95 the
\* position size 1000 * (1 - risk/20) * confidence is at least 200, so
\* calculate_position_size reports Medium or Large, never Small, and no record
\* of the pipeline carries Small.
C21_NeverSmall ==
    /\ (fn.op = "position" =>
          /\ 1000 * (20 - fn.risk) * fn.confidence >= 200 * 20 * 100
          /\ fn.out \in {"Medium ($200-$600)", "Large ($600-$1000)"}
          /\ (fn.out = "Large ($600-$1000)"
                <=> 1000 * (20 - fn.risk) * fn.confidence >= 600 * 20 * 100))
    /\ (fn.op \in {"record", "default"} =>
          fn.out.position_size \in {"Medium ($200-$600)", "Large ($600-$1000)"})

C21_Witness ==
    /\ fn.op = "position" /\ fn.risk = 10 /\ fn.confidence = 50
    /\ fn.out = "Medium ($200-$600)"
====
